---- MODULE Spec2Model ----
(***************************************************************************)
(* obscure-string: the masking engine of src/src/index.js (validator,      *)
(* strategies, memo cache, batch and async orchestration).                  *)
(*                                                                         *)
(* A JavaScript string is a sequence of one-character strings (UTF-16 code *)
(* units).  Any other JavaScript value is a tagged record, so that typeof  *)
(* and the ?? and || operators can be evaluated as the source does.        *)
(***************************************************************************)
EXTENDS Integers, Sequences, FiniteSets, TLC

VARIABLES
  cache,     \* the module-level Map, in insertion order
  call,      \* the operation that ran last and its arguments
  outcome,   \* what that operation returned, threw or settled with
  pending    \* calls handed to setImmediate that have not run yet

vars == <<cache, call, outcome, pending>>

(***************************************************************************)
(* JavaScript values                                                       *)
(***************************************************************************)
Undefined == [t |-> "undefined"]

Null == [t |-> "null"]

Str(s) == [t |-> "string", s |-> s]

\* a number num/den; Number.isInteger holds iff den = 1
Num(n) == [t |-> "number", num |-> n, den |-> 1]

Frac(n, d) == [t |-> "number", num |-> n, den |-> d]

Bool(b) == [t |-> "boolean", b |-> b]

TypeOf(v) == IF v.t = "null" THEN "object" ELSE v.t

\* a ?? b
Nullish(a, b) == IF a.t \in {"undefined", "null"} THEN b ELSE a

\* ToBoolean(v)
Truthy(v) ==
  CASE v.t = "undefined" -> FALSE
    [] v.t = "null" -> FALSE
    [] v.t = "string" -> Len(v.s) > 0
    [] v.t = "number" -> v.num # 0
    [] v.t = "boolean" -> v.b
    [] OTHER -> TRUE

IsInteger(v) == v.t = "number" /\ v.den = 1

Min(a, b) == IF a < b THEN a ELSE b

Max(a, b) == IF a > b THEN a ELSE b

(***************************************************************************)
(* String primitives                                                       *)
(***************************************************************************)
\* String.prototype.repeat for a count >= 0
RECURSIVE Repeat(_, _)
Repeat(s, n) == IF n <= 0 THEN <<>> ELSE s \o Repeat(s, n - 1)

\* the relative index of slice(): negative counts from the end, clamped to 0..len
RelIndex(i, len) == IF i < 0 THEN Max(len + i, 0) ELSE Min(i, len)

\* String.prototype.slice(start, end)
Slice(s, start, end) ==
  LET from == RelIndex(start, Len(s))
      to == RelIndex(end, Len(s))
  IN  IF from >= to THEN <<>> ELSE SubSeq(s, from + 1, to)

\* String.prototype.slice(start); slice(-0) is slice(0), the whole string
SliceFrom(s, start) == Slice(s, start, Len(s))

\* a literal of the source as a sequence of characters
Chars(literal) == [i \in 1..Len(literal) |-> SubSeq(literal, i, i)]

\* the text of a sequence of characters
RECURSIVE Text(_)
Text(s) == IF s = <<>> THEN "" ELSE Head(s) \o Text(Tail(s))

RECURSIVE Concat(_)
Concat(parts) == IF parts = <<>> THEN <<>> ELSE Head(parts) \o Concat(Tail(parts))

\* String.prototype.indexOf(ch), 0-based, -1 when absent
IndexOf(s, ch) ==
  IF \E i \in 1..Len(s) : s[i] = ch
  THEN (CHOOSE i \in 1..Len(s) : s[i] = ch /\ \A j \in 1..(i - 1) : s[j] # ch) - 1
  ELSE -1

\* needle occurs in hay as a contiguous substring (String.prototype.includes)
Contains(hay, needle) ==
  \E i \in 0..(Len(hay) - Len(needle)) :
    \A j \in 1..Len(needle) : hay[i + j] = needle[j]

Digits == Chars("0123456789")

IsDigit(c) == \E i \in 1..10 : Digits[i] = c

IsSpace(c) == c \in {" ", "\t", "\n", "\r"}

\* String(n) for an integer n >= 0
RECURSIVE NatToString(_)
NatToString(n) ==
  IF n < 10 THEN <<Digits[n + 1]>> ELSE NatToString(n \div 10) \o <<Digits[(n % 10) + 1]>>

\* String(v) as the template literal of getCacheKey applies it
ToStringJS(v) ==
  CASE v.t = "string" -> v.s
    [] v.t = "number" ->
         IF v.den = 0 THEN <<"N", "a", "N">>
         ELSE IF v.den = 1
         THEN IF v.num < 0 THEN <<"-">> \o NatToString(-v.num) ELSE NatToString(v.num)
         ELSE NatToString(v.num \div v.den) \o <<".", "5">>
    [] v.t = "boolean" ->
         IF v.b THEN Chars("true") ELSE Chars("false")
    [] v.t = "null" -> Chars("null")
    [] OTHER -> Chars("undefined")

(***************************************************************************)
(* Constants of src/src/index.js                                           *)
(***************************************************************************)
MAX_INPUT_LENGTH == 1000000

MAX_MASK_CHAR_LENGTH == 10

DEFAULT_MASK_CHAR == <<"*">>

DEFAULT_PREFIX_LENGTH == 3

DEFAULT_SUFFIX_LENGTH == 3

DEFAULT_CHUNK_SIZE == 10000

MAX_CACHE_SIZE == 100

(***************************************************************************)
(* Options bag: every field either variant of the engine reads; an absent  *)
(* field is Undefined                                                      *)
(***************************************************************************)
NoOptions ==
  [maskChar |-> Undefined, prefixLength |-> Undefined, suffixLength |-> Undefined,
   percentage |-> Undefined, preservePattern |-> Undefined, randomMask |-> Undefined,
   pattern |-> Undefined, cache |-> Undefined, chunkSize |-> Undefined,
   minMaskLength |-> Undefined, fullMask |-> Undefined, reverseMask |-> Undefined,
   maxLength |-> Undefined, preset |-> Undefined]

(***************************************************************************)
(* validateInput: the rules in source order, first failure wins            *)
(***************************************************************************)
Invalid(msg) == [valid |-> FALSE, error |-> msg, sanitized |-> NoOptions]

\* each rule gives the error text of its first failing check, or "" when it passes
maskCharRule(maskChar) ==
  IF TypeOf(maskChar) # "string" THEN "maskChar must be a string"
  ELSE IF Len(maskChar.s) = 0 THEN "maskChar cannot be empty"
  ELSE IF Len(maskChar.s) > MAX_MASK_CHAR_LENGTH
    THEN "maskChar exceeds maximum length of 10 characters"
  ELSE ""

prefixLengthRule_leaky(str, prefixLength) ==
  IF ~IsInteger(prefixLength) \/ prefixLength.num < 0
  THEN "prefixLength must be a non-negative integer"
  ELSE IF prefixLength.num > Len(str.s)
    THEN "prefixLength exceeds length of " \o Text(str.s)
  ELSE ""

prefixLengthRule(str, prefixLength) ==
  IF ~IsInteger(prefixLength) \/ prefixLength.num < 0
  THEN "prefixLength must be a non-negative integer"
  ELSE IF prefixLength.num > Len(str.s) THEN "prefixLength exceeds string length"
  ELSE ""

\* a suffixLength rule whose length test looks at the input's first character
suffixLengthRule_byContent(str, suffixLength) ==
  IF ~IsInteger(suffixLength) \/ suffixLength.num < 0
  THEN "suffixLength must be a non-negative integer"
  ELSE IF suffixLength.num > Len(str.s) /\ str.s # <<>> /\ str.s[1] = "a"
    THEN "suffixLength exceeds string length"
  ELSE ""

suffixLengthRule(str, suffixLength) ==
  IF ~IsInteger(suffixLength) \/ suffixLength.num < 0
  THEN "suffixLength must be a non-negative integer"
  ELSE IF suffixLength.num > Len(str.s) THEN "suffixLength exceeds string length"
  ELSE ""

percentageRule(percentage) ==
  IF percentage # Undefined
     /\ (TypeOf(percentage) # "number" \/ percentage.num < 0
         \/ percentage.num > 100 * percentage.den)
  THEN "percentage must be a number between 0 and 100"
  ELSE ""

preservePatternRule(preservePattern) ==
  IF preservePattern # Undefined /\ TypeOf(preservePattern) # "string"
  THEN "preservePattern must be a string"
  ELSE ""

randomMaskRule(randomMask) ==
  IF randomMask # Undefined /\ TypeOf(randomMask) # "boolean"
  THEN "randomMask must be a boolean"
  ELSE ""

validateInput(str, options) ==
  LET maskChar == Nullish(options.maskChar, Str(DEFAULT_MASK_CHAR))
      prefixLength == Nullish(options.prefixLength, Num(DEFAULT_PREFIX_LENGTH))
      suffixLength == Nullish(options.suffixLength, Num(DEFAULT_SUFFIX_LENGTH))
  IN
  IF TypeOf(str) # "string" THEN Invalid("Input must be a string")
  ELSE IF Len(str.s) > MAX_INPUT_LENGTH
    THEN Invalid("Input exceeds maximum length of 1000000 characters")
  ELSE IF maskCharRule(maskChar) # "" THEN Invalid(maskCharRule(maskChar))
  ELSE IF prefixLengthRule(str, prefixLength) # ""
    THEN Invalid(prefixLengthRule(str, prefixLength))
  ELSE IF suffixLengthRule(str, suffixLength) # ""
    THEN Invalid(suffixLengthRule(str, suffixLength))
  ELSE IF prefixLength.num + suffixLength.num > Len(str.s)
    THEN Invalid("prefixLength + suffixLength cannot exceed string length")
  ELSE IF percentageRule(options.percentage) # ""
    THEN Invalid(percentageRule(options.percentage))
  ELSE IF preservePatternRule(options.preservePattern) # ""
    THEN Invalid(preservePatternRule(options.preservePattern))
  ELSE IF randomMaskRule(options.randomMask) # ""
    THEN Invalid(randomMaskRule(options.randomMask))
  ELSE [valid |-> TRUE, error |-> "",
        sanitized |-> [NoOptions EXCEPT !.maskChar = maskChar,
                                        !.prefixLength = prefixLength,
                                        !.suffixLength = suffixLength,
                                        !.percentage = options.percentage,
                                        !.preservePattern = options.preservePattern,
                                        !.randomMask = options.randomMask]]

\* the error texts validateInput can give
ValidationErrors ==
  { "Input must be a string",
    "Input exceeds maximum length of 1000000 characters",
    "maskChar must be a string",
    "maskChar cannot be empty",
    "maskChar exceeds maximum length of 10 characters",
    "prefixLength must be a non-negative integer",
    "prefixLength exceeds string length",
    "suffixLength must be a non-negative integer",
    "suffixLength exceeds string length",
    "prefixLength + suffixLength cannot exceed string length",
    "percentage must be a number between 0 and 100",
    "preservePattern must be a string",
    "randomMask must be a boolean" }

(***************************************************************************)
(* getRandomMaskChar: the palette as the source file spells it.  Six of    *)
(* the eight literals are two or three code units long.                    *)
(***************************************************************************)
RandomPalette ==
  << <<"*">>, <<"#">>,
     <<"u201A", "u00C4", "u00A2">>, <<"u221A", "u00F3">>,
     <<"u201A", "u00F1", "u2122">>, <<"u201A", "u00F1", "u00B4">>,
     <<"u201A", "u00F1", "u2020">>, <<"u201A", "u00F1", "u00B0">> >>

\* r is the random byte (or Math.random bucket), reduced modulo the palette size
getRandomMaskChar(r) == RandomPalette[(r % Len(RandomPalette)) + 1]

(***************************************************************************)
(* Pattern detection and pattern-specific masks                            *)
(***************************************************************************)
\* [^\s@]+
IsEmailAtomRun(s) == Len(s) > 0 /\ \A i \in 1..Len(s) : ~IsSpace(s[i]) /\ s[i] # "@"

\* /^[^\s@]+@[^\s@]+\.[^\s@]+$/
MatchesEMAIL_PATTERN(s) ==
  \E a \in 1..Len(s) : \E d \in (a + 1)..Len(s) :
    /\ s[a] = "@"
    /\ s[d] = "."
    /\ IsEmailAtomRun(SubSeq(s, 1, a - 1))
    /\ IsEmailAtomRun(SubSeq(s, a + 1, d - 1))
    /\ IsEmailAtomRun(SubSeq(s, d + 1, Len(s)))

IsPhoneChar(c) == IsDigit(c) \/ IsSpace(c) \/ c \in {"-", "(", ")"}

\* /^\+?[\d\s\-\(\)]+$/
MatchesPHONE_PATTERN(s) ==
  LET rest == IF Len(s) > 0 /\ s[1] = "+" THEN Tail(s) ELSE s
  IN  Len(rest) > 0 /\ \A i \in 1..Len(rest) : IsPhoneChar(rest[i])

\* detectPattern without its email test
detectPattern_noEmail(s) ==
  IF MatchesPHONE_PATTERN(s) THEN Chars("phone") ELSE Chars("generic")

detectPattern(s) ==
  IF MatchesEMAIL_PATTERN(s) THEN Chars("email")
  ELSE IF MatchesPHONE_PATTERN(s) THEN Chars("phone")
  ELSE Chars("generic")

maskEmail(email, options) ==
  LET atIndex == IndexOf(email, "@")
      localPart == Slice(email, 0, atIndex)
      domain == SliceFrom(email, atIndex)
  IN  IF atIndex <= 0 THEN email
      ELSE IF Len(localPart) <= 2 THEN localPart \o domain
      ELSE Slice(localPart, 0, 1) \o Repeat(options.maskChar.s, Len(localPart) - 2)
           \o SliceFrom(localPart, -1) \o domain

\* phone.replace(/\D/g, '')
StripNonDigits(s) == SelectSeq(s, IsDigit)

maskPhone(phone, options) ==
  LET digits == StripNonDigits(phone)
  IN  IF Len(digits) < 4 THEN phone
      ELSE Repeat(options.maskChar.s, Len(digits) - 4) \o SliceFrom(digits, -4)

(***************************************************************************)
(* Cache: a Map in insertion order, as a sequence of <<key, value>> pairs  *)
(***************************************************************************)
\* `${a || ''}`
OrEmpty(v) == IF Truthy(v) THEN ToStringJS(v) ELSE <<>>

getCacheKey(s, options) ==
  NatToString(Len(s)) \o <<":">> \o ToStringJS(options.maskChar)
    \o <<":">> \o ToStringJS(options.prefixLength)
    \o <<":">> \o ToStringJS(options.suffixLength)
    \o <<":">> \o OrEmpty(options.percentage)
    \o <<":">> \o OrEmpty(options.preservePattern)

HasKey(c, key) == \E i \in 1..Len(c) : c[i].key = key

\* Map.prototype.get
MapGet(c, key) == (CHOOSE i \in 1..Len(c) : c[i].key = key)

\* cache.get(key) || null; the absent and the empty value both read as a miss
getFromCache(c, key) ==
  IF HasKey(c, key) /\ Len(c[MapGet(c, key)].value) > 0
  THEN [hit |-> TRUE, value |-> c[MapGet(c, key)].value]
  ELSE [hit |-> FALSE, value |-> <<>>]

\* Map.prototype.set: a present key keeps its place, a new key goes last
MapSet(c, key, value) ==
  IF HasKey(c, key)
  THEN [c EXCEPT ![MapGet(c, key)] = [key |-> key, value |-> value]]
  ELSE Append(c, [key |-> key, value |-> value])

setInCache_noEviction(c, key, value) == MapSet(c, key, value)

setInCache(c, key, value) ==
  MapSet(IF Len(c) >= MAX_CACHE_SIZE THEN Tail(c) ELSE c, key, value)

clearCache == <<>>

getCacheStats(c) == [size |-> Len(c), maxSize |-> MAX_CACHE_SIZE]

(***************************************************************************)
(* obscureCore: standard prefix/suffix masking                             *)
(***************************************************************************)
obscureCore(s, options) ==
  LET prefixLength == options.prefixLength.num
      suffixLength == options.suffixLength.num
      maskLength == Len(s) - prefixLength - suffixLength
  IN  IF Len(s) <= prefixLength + suffixLength THEN s
      ELSE Slice(s, 0, prefixLength) \o Repeat(options.maskChar.s, maskLength)
           \o SliceFrom(s, -suffixLength)

(***************************************************************************)
(* Strategies of obscureString.  A strategy result is the text produced,   *)
(* or the error thrown while producing it, and the number of               *)
(* getRandomMaskChar calls it made.                                        *)
(***************************************************************************)
Produced(v, n) == [kind |-> "return", value |-> v, message |-> "", drawn |-> n]

Failed(msg) == [kind |-> "throw", value |-> <<>>, message |-> msg, drawn |-> 0]

\* options.pattern branch
maskByPattern(s, options, sanitized) ==
  LET pattern == IF options.pattern = Str(Chars("auto"))
                 THEN Str(detectPattern(s)) ELSE options.pattern
  IN  IF pattern = Str(Chars("email")) THEN maskEmail(s, sanitized)
      ELSE IF pattern = Str(Chars("phone")) THEN maskPhone(s, sanitized)
      ELSE obscureCore(s, sanitized)

\* Math.floor(str.length * (percentage / 100)); exact for the dyadic
\* percentages of the model (0, 25, 50, 75, 100 and halves)
PercentageMaskCount(s, percentage) == (Len(s) * percentage.num) \div (100 * percentage.den)

maskByPercentage(s, options, sanitized) ==
  LET maskCount == PercentageMaskCount(s, options.percentage)
      startPos == (Len(s) - maskCount) \div 2
      endPos == startPos + maskCount
  IN  Slice(s, 0, startPos) \o Repeat(sanitized.maskChar.s, maskCount) \o SliceFrom(s, endPos)

\* options.randomMask branch; rnd[i] is the random number of the i-th draw
maskRandom(s, sanitized, rnd) ==
  LET prefixLength == sanitized.prefixLength.num
      suffixLength == sanitized.suffixLength.num
      maskLength == Len(s) - prefixLength - suffixLength
  IN  IF maskLength <= 0 THEN Produced(s, 0)
      ELSE Produced(Slice(s, 0, prefixLength)
                      \o Concat([i \in 1..maskLength |-> getRandomMaskChar(rnd[i])])
                      \o SliceFrom(s, -suffixLength),
                    maskLength)

\* new RegExp(source) throws on a source that does not compile.  The sources
\* modelled are: one literal character, ".", an escaped character "\c", one
\* bracket class "[...]" of literal characters, a run of several literal
\* characters, and "(" (which does not compile).
RegExpCompiles(source) == \A i \in 1..Len(source) : source[i] # "("

\* str[i].match(new RegExp(source)) on the one-character string ch
MatchesChar(source, ch) ==
  IF Len(source) = 1 THEN source[1] = "." \/ source[1] = ch
  ELSE IF Len(source) = 2 /\ source[1] = "\\" THEN source[2] = ch
  ELSE IF source[1] = "[" /\ source[Len(source)] = "]"
    THEN \E i \in 2..(Len(source) - 1) : source[i] = ch
  ELSE FALSE

\* options.preservePattern branch
maskPreserving(s, sanitized) ==
  LET prefixLength == sanitized.prefixLength.num
      suffixLength == sanitized.suffixLength.num
      middleStart == prefixLength
      middleEnd == Len(s) - suffixLength
      source == sanitized.preservePattern.s
      middle == [i \in 1..(middleEnd - middleStart) |->
                   IF MatchesChar(source, s[middleStart + i])
                   THEN <<s[middleStart + i]>> ELSE sanitized.maskChar.s]
  IN  IF middleStart < middleEnd /\ ~RegExpCompiles(source)
      THEN Failed("Invalid regular expression: /(/: Unterminated group")
      ELSE Produced(Slice(s, 0, prefixLength) \o Concat(middle) \o SliceFrom(s, -suffixLength),
                    0)

\* the strategy dispatch of obscureString
runStrategy(s, options, sanitized, rnd) ==
  IF Truthy(options.pattern) THEN Produced(maskByPattern(s, options, sanitized), 0)
  ELSE IF options.percentage # Undefined
    THEN Produced(maskByPercentage(s, options, sanitized), 0)
  ELSE IF Truthy(options.randomMask) THEN maskRandom(s, sanitized, rnd)
  ELSE IF Truthy(options.preservePattern) THEN maskPreserving(s, sanitized)
  ELSE Produced(obscureCore(s, sanitized), 0)

(***************************************************************************)
(* obscureString(str, options) run against cache c with random numbers     *)
(* rnd: what it returns or throws, and the cache it leaves.                *)
(***************************************************************************)
Finish(r, c, hit) == [kind |-> r.kind, value |-> r.value, message |-> r.message,
                      drawn |-> r.drawn, hit |-> hit, cache |-> c]

\* the two early returns of obscureString: a non-string, or the empty string
ReturnsEmptyAtOnce_nullOnly(str) ==
  str.t \in {"null", "undefined"} \/ (TypeOf(str) = "string" /\ Len(str.s) = 0)

ReturnsEmptyAtOnce(str) == TypeOf(str) # "string" \/ Len(str.s) = 0

\* obscureString over an LRU cache: a hit moves the entry to the newest place
obscureString_refreshesOnHit(str, options, c, rnd) ==
  IF ReturnsEmptyAtOnce(str) THEN Finish(Produced(<<>>, 0), c, FALSE)
  ELSE
    LET validation == validateInput(str, options)
        sanitizedOptions == validation.sanitized
        useCache == options.cache # Bool(FALSE)
        cacheKey == getCacheKey(str.s, sanitizedOptions)
        cached == getFromCache(c, cacheKey)
        result == runStrategy(str.s, options, sanitizedOptions, rnd)
    IN  IF ~validation.valid
        THEN Finish(Failed("obscure-string: " \o validation.error), c, FALSE)
        ELSE IF useCache /\ cached.hit
          THEN Finish(Produced(cached.value, 0),
                      Append(SelectSeq(c, LAMBDA e : e.key # cacheKey),
                             [key |-> cacheKey, value |-> cached.value]),
                      TRUE)
        ELSE IF result.kind = "throw" THEN Finish(result, c, FALSE)
        ELSE Finish(result, IF useCache THEN setInCache(c, cacheKey, result.value) ELSE c,
                    FALSE)

\* obscureString with both cache guards dropped: options.cache is never read
obscureString_cacheAlways(str, options, c, rnd) ==
  IF ReturnsEmptyAtOnce(str) THEN Finish(Produced(<<>>, 0), c, FALSE)
  ELSE
    LET validation == validateInput(str, options)
        sanitizedOptions == validation.sanitized
        cacheKey == getCacheKey(str.s, sanitizedOptions)
        cached == getFromCache(c, cacheKey)
        result == runStrategy(str.s, options, sanitizedOptions, rnd)
    IN  IF ~validation.valid
        THEN Finish(Failed("obscure-string: " \o validation.error), c, FALSE)
        ELSE IF cached.hit THEN Finish(Produced(cached.value, 0), c, TRUE)
        ELSE IF result.kind = "throw" THEN Finish(result, c, FALSE)
        ELSE Finish(result, setInCache(c, cacheKey, result.value), FALSE)

obscureString(str, options, c, rnd) ==
  IF ReturnsEmptyAtOnce(str) THEN Finish(Produced(<<>>, 0), c, FALSE)
  ELSE
    LET validation == validateInput(str, options)
        sanitizedOptions == validation.sanitized
        useCache == options.cache # Bool(FALSE)
        cacheKey == getCacheKey(str.s, sanitizedOptions)
        cached == getFromCache(c, cacheKey)
        result == runStrategy(str.s, options, sanitizedOptions, rnd)
    IN  IF ~validation.valid
        THEN Finish(Failed("obscure-string: " \o validation.error), c, FALSE)
        ELSE IF useCache /\ cached.hit THEN Finish(Produced(cached.value, 0), c, TRUE)
        ELSE IF result.kind = "throw" THEN Finish(result, c, FALSE)
        ELSE Finish(result, IF useCache THEN setInCache(c, cacheKey, result.value) ELSE c,
                    FALSE)

(***************************************************************************)
(* Random numbers a call consumes: one per masked position of the          *)
(* randomMask strategy, each a byte reduced modulo the palette size.       *)
(***************************************************************************)
RandomByteMax == 2

DrawCount(str, options) ==
  IF TypeOf(str) = "string" /\ validateInput(str, options).valid /\ Truthy(options.randomMask)
  THEN Max(0, Len(str.s) - validateInput(str, options).sanitized.prefixLength.num
                         - validateInput(str, options).sanitized.suffixLength.num)
  ELSE 0

DrawSet(str, options) == [1..DrawCount(str, options) -> 0..RandomByteMax]

(***************************************************************************)
(* obscureStringBatch: strings.map over the engine, left to right, each    *)
(* element's throw replaced by ''.                                         *)
(***************************************************************************)
Array(items) == [t |-> "array", items |-> items]

\* strings.map(str => { try { ... } catch (error) { return ''; } })
RECURSIVE mapObscure_firstErrorEnds(_, _, _, _)
mapObscure_firstErrorEnds(items, options, c, rnds) ==
  IF items = <<>> THEN [results |-> <<>>, cache |-> c]
  ELSE LET r == obscureString(Head(items), options, c, Head(rnds))
           rest == mapObscure_firstErrorEnds(Tail(items), options, r.cache, Tail(rnds))
       IN  IF r.kind = "throw" THEN [results |-> <<>>, cache |-> c]
           ELSE [results |-> <<r.value>> \o rest.results, cache |-> rest.cache]

RECURSIVE mapObscure(_, _, _, _)
mapObscure(items, options, c, rnds) ==
  IF items = <<>> THEN [results |-> <<>>, cache |-> c]
  ELSE LET r == obscureString(Head(items), options, c, Head(rnds))
           rest == mapObscure(Tail(items), options, r.cache, Tail(rnds))
       IN  [results |-> <<IF r.kind = "throw" THEN <<>> ELSE r.value>> \o rest.results,
            cache |-> rest.cache]

obscureStringBatch(strings, options, c, rnds) ==
  IF strings.t # "array"
  THEN [kind |-> "throw", results |-> <<>>,
        message |-> "obscure-string: Input must be an array of strings", cache |-> c]
  ELSE LET m == mapObscure(strings.items, options, c, rnds)
       IN  [kind |-> "return", results |-> m.results, message |-> "", cache |-> m.cache]

BatchDrawSet(strings, options) ==
  IF strings.t # "array" THEN {<<>>}
  ELSE LET n == Len(strings.items)
           all == UNION {DrawSet(strings.items[i], options) : i \in 1..n}
       IN  {f \in [1..n -> all] : \A i \in 1..n : f[i] \in DrawSet(strings.items[i], options)}

(***************************************************************************)
(* obscureStringAsync: the synchronous part of the promise executor.       *)
(* immediate: the engine runs inside the call; otherwise the call is       *)
(* handed to setImmediate.                                                 *)
(***************************************************************************)
\* !str
Falsy(v) == ~Truthy(v)

\* str.length < (options.chunkSize || DEFAULT_CHUNK_SIZE); a value without a
\* length compares as undefined < n, which is false
BelowChunkSize(str, options) ==
  LET chunk == IF Truthy(options.chunkSize) THEN options.chunkSize ELSE Num(DEFAULT_CHUNK_SIZE)
  IN  /\ TypeOf(str) = "string"
      /\ TypeOf(chunk) = "number"
      /\ Len(str.s) * chunk.den < chunk.num

\* obscureStringAsync that hands every call to setImmediate
RunsImmediately_never(str, options) == FALSE

RunsImmediately(str, options) == Falsy(str) \/ BelowChunkSize(str, options)

Settle_swallowsError(r) ==
  [kind |-> "resolved", value |-> r.value, message |-> "", drawn |-> r.drawn, hit |-> r.hit]

\* resolve(obscureString(...)) or, from the catch, reject(error)
Settle(r) ==
  [kind |-> IF r.kind = "throw" THEN "rejected" ELSE "resolved",
   value |-> r.value, message |-> r.message, drawn |-> r.drawn, hit |-> r.hit]

(***************************************************************************)
(* The permissive variant of the engine, kept in __tests__/cli.test.js     *)
(* (lines 177-484): no cache, no async; fullMask, reverseMask, presets,    *)
(* minMaskLength, maxLength and getMaskInfo.  Names that the strict        *)
(* variant also defines carry the suffix _v1.                              *)
(***************************************************************************)
\* a destructuring default: { x = d } = options
Default(v, d) == IF v = Undefined THEN d ELSE v

\* NaN
NaN == Frac(0, 0)

IsNaN(v) == v.t = "number" /\ v.den = 0

\* the value of a string of decimal digits
RECURSIVE DigitsValue(_)
DigitsValue(s) ==
  IF s = <<>> THEN 0
  ELSE 10 * DigitsValue(SubSeq(s, 1, Len(s) - 1))
         + (CHOOSE d \in 0..9 : Digits[d + 1] = s[Len(s)])

\* ToNumber(v)
ToNumber(v) ==
  CASE v.t = "number" -> v
    [] v.t = "null" -> Num(0)
    [] v.t = "boolean" -> Num(IF v.b THEN 1 ELSE 0)
    [] v.t = "string" ->
         IF \A i \in 1..Len(v.s) : IsDigit(v.s[i]) THEN Num(DigitsValue(v.s)) ELSE NaN
    [] OTHER -> NaN

\* a < b on numbers; false when either is NaN
NumLess(a, b) == ~IsNaN(a) /\ ~IsNaN(b) /\ a.num * b.den < b.num * a.den

Returned(v) == [kind |-> "return", value |-> v, message |-> "", error |-> ""]

Thrown(error, msg) == [kind |-> "throw", value |-> <<>>, message |-> msg, error |-> error]

\* String.prototype.lastIndexOf(ch), 0-based, -1 when absent
LastIndexOf(s, ch) ==
  IF \E i \in 1..Len(s) : s[i] = ch
  THEN (CHOOSE i \in 1..Len(s) : s[i] = ch /\ \A j \in (i + 1)..Len(s) : s[j] # ch) - 1
  ELSE -1

\* String.prototype.toLowerCase on the letters of the preset names
ToLowerCase(s) ==
  [i \in 1..Len(s) |->
     CASE s[i] = "C" -> "c" [] s[i] = "E" -> "e" [] s[i] = "P" -> "p" [] OTHER -> s[i]]

\* the standard branch: too short or below minMaskLength returns str
standardMask(str, maskChar, prefixLength, suffixLength, minMaskLength) ==
  LET totalVisible == prefixLength + suffixLength
      strLength == Len(str)
      maskLength == strLength - totalVisible
  IN  IF strLength <= totalVisible THEN str
      ELSE IF minMaskLength > 0 /\ maskLength < minMaskLength THEN str
      ELSE IF strLength < 100
      THEN Slice(str, 0, prefixLength) \o Repeat(maskChar, maskLength)
             \o SliceFrom(str, -suffixLength)
      ELSE Slice(str, 0, prefixLength) \o Repeat(maskChar, maskLength)
             \o SliceFrom(str, strLength - suffixLength)

\* applyPreset splitting at the first '@'
applyPreset_firstAt(str, preset, maskChar) ==
  IF preset.t # "string"
  THEN Thrown("TypeError", "preset.toLowerCase is not a function")
  ELSE
  LET name == ToLowerCase(preset.s)
      digits == StripNonDigits(str)
  IN  CASE name = Chars("email") ->
             LET atIndex == IndexOf(str, "@")
                 localPart == Slice(str, 0, atIndex)
                 domain == SliceFrom(str, atIndex)
                 showChars == Min(2, Len(localPart) \div 3)
             IN  IF atIndex <= 0
                 THEN Returned(standardMask(str, maskChar, 3, 3, 0))
                 ELSE IF Len(localPart) <= 2 THEN Returned(localPart \o domain)
                 ELSE Returned(Slice(localPart, 0, showChars)
                                 \o Repeat(maskChar, Len(localPart) - showChars) \o domain)
        [] name = Chars("creditcard") ->
             IF Len(digits) < 8 THEN Returned(str)
             ELSE Returned(Repeat(maskChar, Len(digits) - 4) \o SliceFrom(digits, -4))
        [] name = Chars("phone") ->
             IF Len(digits) < 7 THEN Returned(str)
             ELSE Returned(Repeat(maskChar, Len(digits) - 4) \o SliceFrom(digits, -4))
        [] OTHER -> Thrown("Error", "Unknown preset: " \o Text(preset.s))

\* preset must be a string for preset.toLowerCase() to exist
applyPreset(str, preset, maskChar) ==
  IF preset.t # "string"
  THEN Thrown("TypeError", "preset.toLowerCase is not a function")
  ELSE
  LET name == ToLowerCase(preset.s)
      digits == StripNonDigits(str)
  IN  CASE name = Chars("email") ->
             LET atIndex == LastIndexOf(str, "@")
                 localPart == Slice(str, 0, atIndex)
                 domain == SliceFrom(str, atIndex)
                 showChars == Min(2, Len(localPart) \div 3)
             IN  IF atIndex <= 0
                 THEN Returned(standardMask(str, maskChar, 3, 3, 0))
                 ELSE IF Len(localPart) <= 2 THEN Returned(localPart \o domain)
                 ELSE Returned(Slice(localPart, 0, showChars)
                                 \o Repeat(maskChar, Len(localPart) - showChars) \o domain)
        [] name = Chars("creditcard") ->
             IF Len(digits) < 8 THEN Returned(str)
             ELSE Returned(Repeat(maskChar, Len(digits) - 4) \o SliceFrom(digits, -4))
        [] name = Chars("phone") ->
             IF Len(digits) < 7 THEN Returned(str)
             ELSE Returned(Repeat(maskChar, Len(digits) - 4) \o SliceFrom(digits, -4))
        [] OTHER -> Thrown("Error", "Unknown preset: " \o Text(preset.s))

maskByPercentage_v1(str, percentage, maskChar) ==
  IF percentage.t # "number" \/ NumLess(percentage, Num(0)) \/ NumLess(Num(100), percentage)
  THEN Thrown("RangeError", "percentage must be a number between 0 and 100")
  ELSE
  \* a NaN count fails both comparisons; slice(0, NaN) and repeat(NaN) are
  \* empty and slice(-NaN) is the whole string
  IF IsNaN(percentage) THEN Returned(str)
  ELSE
  LET strLength == Len(str)
      charsToMask == (strLength * percentage.num) \div (100 * percentage.den)
      visibleChars == strLength - charsToMask
      prefixLen == visibleChars \div 2
      suffixLen == visibleChars - prefixLen
  IN  IF charsToMask = 0 THEN Returned(str)
      ELSE IF charsToMask >= strLength THEN Returned(Repeat(maskChar, strLength))
      ELSE Returned(Slice(str, 0, prefixLen) \o Repeat(maskChar, charsToMask)
                      \o SliceFrom(str, -suffixLen))

reverseObscure(str, prefixLength, suffixLength, maskChar, minMaskLength) ==
  LET strLength == Len(str)
      totalMasked == prefixLength + suffixLength
  IN  IF strLength <= totalMasked THEN Repeat(maskChar, strLength)
      ELSE IF minMaskLength > 0 /\ totalMasked < minMaskLength THEN str
      ELSE Repeat(maskChar, prefixLength) \o Slice(str, prefixLength, strLength - suffixLength)
             \o Repeat(maskChar, suffixLength)

\* String(str) for a value that is no string
Coerced(str) == IF str.t = "string" THEN str.s ELSE ToStringJS(str)

NonNegativeInteger(v) == IsInteger(v) /\ v.num >= 0

obscureString_v1(str, options) ==
  IF str.t \in {"null", "undefined"} THEN Returned(<<>>)
  ELSE
  LET s == Coerced(str)
      maskChar == Default(options.maskChar, Str(<<"*">>))
      prefixLength == Default(options.prefixLength, Num(3))
      suffixLength == Default(options.suffixLength, Num(3))
      minMaskLength == Default(options.minMaskLength, Num(0))
      fullMask == Default(options.fullMask, Bool(FALSE))
      reverseMask == Default(options.reverseMask, Bool(FALSE))
      percentage == options.percentage
      maxLength == Default(options.maxLength, Num(1000000))
      preset == options.preset
  IN  IF s = <<>> THEN Returned(<<>>)
      ELSE IF NumLess(ToNumber(maxLength), Num(Len(s)))
      THEN Thrown("RangeError",
                  "String length " \o Text(NatToString(Len(s)))
                    \o " exceeds maximum allowed length " \o Text(ToStringJS(maxLength)))
      ELSE IF maskChar.t # "string" \/ Len(maskChar.s) = 0
      THEN Thrown("TypeError", "maskChar must be a non-empty string")
      ELSE IF ~(/\ NonNegativeInteger(prefixLength)
                /\ NonNegativeInteger(suffixLength)
                /\ NonNegativeInteger(minMaskLength))
      THEN Thrown("TypeError",
                  "prefixLength, suffixLength, and minMaskLength must be non-negative integers")
      ELSE IF Truthy(preset) THEN applyPreset(s, preset, maskChar.s)
      ELSE IF Truthy(fullMask) THEN Returned(Repeat(maskChar.s, Len(s)))
      ELSE IF percentage # Undefined THEN maskByPercentage_v1(s, percentage, maskChar.s)
      ELSE IF Truthy(reverseMask)
      THEN Returned(reverseObscure(s, prefixLength.num, suffixLength.num, maskChar.s,
                                   minMaskLength.num))
      ELSE Returned(standardMask(s, maskChar.s, prefixLength.num, suffixLength.num,
                                 minMaskLength.num))

\* strings.map((str) => obscureString(str, options)): the first throw ends the call
RECURSIVE mapObscure_v1(_, _)
mapObscure_v1(items, options) ==
  IF items = <<>> THEN Returned(<<>>)
  ELSE LET r == obscureString_v1(Head(items), options)
           rest == mapObscure_v1(Tail(items), options)
       IN  IF r.kind = "throw" THEN r
           ELSE IF rest.kind = "throw" THEN rest
           ELSE Returned(<<r.value>> \o rest.value)

obscureStringBatch_v1(strings, options) ==
  IF strings.t # "array" THEN Thrown("TypeError", "First argument must be an array")
  ELSE mapObscure_v1(strings.items, options)

\* a number num/den as a value: an integer when den divides num
Rational(n, d) ==
  IF d = 0 THEN NaN ELSE IF n % d = 0 THEN Num(n \div d) ELSE Frac(n, d)

\* a + b: concatenation when either operand is a string, else numeric
Plus(a, b) ==
  IF a.t = "string" \/ b.t = "string" THEN Str(ToStringJS(a) \o ToStringJS(b))
  ELSE LET x == ToNumber(a)
           y == ToNumber(b)
       IN  IF IsNaN(x) \/ IsNaN(y) THEN NaN
           ELSE Rational(x.num * y.den + y.num * x.den, x.den * y.den)

\* a - b
Minus(a, b) ==
  LET x == ToNumber(a)
      y == ToNumber(b)
  IN  IF IsNaN(x) \/ IsNaN(y) THEN NaN
      ELSE Rational(x.num * y.den - y.num * x.den, x.den * y.den)

\* a <= b and a < b, the operands converted with ToNumber
LessOrEqual(a, b) == 
  LET x == ToNumber(a)
      y == ToNumber(b)
  IN  ~IsNaN(x) /\ ~IsNaN(y) /\ x.num * y.den <= y.num * x.den

Less(a, b) == NumLess(ToNumber(a), ToNumber(b))

NoField == [t |-> "absent"]

\* the report object; a field the branch does not set is NoField
MaskInfo(willBeMasked, reason) ==
  [willBeMasked |-> willBeMasked, reason |-> reason, originalLength |-> NoField,
   maskedLength |-> NoField, visibleChars |-> NoField, maskedChars |-> NoField,
   prefixLength |-> NoField, suffixLength |-> NoField,
   maskLength |-> NoField, minMaskLength |-> NoField]

\* the report for a record of options
maskInfoOf(s, options) ==
  LET prefixLength == Default(options.prefixLength, Num(3))
      suffixLength == Default(options.suffixLength, Num(3))
      fullMask == Default(options.fullMask, Bool(FALSE))
      minMaskLength == Default(options.minMaskLength, Num(0))
      totalVisible == Plus(prefixLength, suffixLength)
      strLength == Num(Len(s))
      maskLength == Minus(strLength, totalVisible)
  IN  IF s = <<>> THEN MaskInfo(FALSE, "empty string")
      ELSE IF Truthy(fullMask)
      THEN [MaskInfo(TRUE, "") EXCEPT !.originalLength = strLength, !.maskedLength = strLength,
                                      !.visibleChars = Num(0), !.maskedChars = strLength]
      ELSE IF LessOrEqual(strLength, totalVisible)
      THEN [MaskInfo(FALSE, "string too short") EXCEPT !.originalLength = strLength]
      ELSE IF Less(Num(0), minMaskLength) /\ Less(maskLength, minMaskLength)
      THEN [MaskInfo(FALSE, "mask length below minimum") EXCEPT
              !.originalLength = strLength, !.maskLength = maskLength,
              !.minMaskLength = minMaskLength]
      ELSE [MaskInfo(TRUE, "") EXCEPT
              !.originalLength = strLength, !.maskedLength = maskLength,
              !.visibleChars = totalVisible, !.maskedChars = maskLength,
              !.prefixLength = prefixLength, !.suffixLength = suffixLength]

Reported(info) == [kind |-> "return", info |-> info, message |-> "", error |-> ""]

\* const { ... } = options throws when options is null
getMaskInfo(str, options) ==
  IF str.t \in {"null", "undefined"} THEN Reported(MaskInfo(FALSE, "null or undefined input"))
  ELSE IF options = Null
  THEN [kind |-> "throw", info |-> NoField, error |-> "TypeError",
        message |-> "Cannot destructure property 'prefixLength' of 'options' as it is null."]
  ELSE Reported(maskInfoOf(Coerced(str), options))

(***************************************************************************)
(* The state machine.  Each action is one whole call of an exported        *)
(* function (JavaScript runs it to completion), or one setImmediate        *)
(* callback.  Inputs and Bags are the values the caller may pass.          *)
(***************************************************************************)
Ran(op, str, options) == [op |-> op, str |-> str, options |-> options]

Observed(r) ==
  [kind |-> r.kind, value |-> r.value, message |-> r.message, drawn |-> r.drawn, hit |-> r.hit]

Init ==
  /\ cache = <<>>
  /\ call = Ran("none", Undefined, NoOptions)
  /\ outcome = [kind |-> "none"]
  /\ pending = <<>>

CallObscureString(Inputs, Bags) ==
  \E str \in Inputs, options \in Bags :
    \E rnd \in DrawSet(str, options) :
      \E r \in {obscureString(str, options, cache, rnd)} :
          /\ cache' = r.cache
          /\ call' = Ran("obscureString", str, options)
          /\ outcome' = Observed(r)
          /\ UNCHANGED pending

CallObscureStringBatch(Lists, Bags) ==
  \E strings \in Lists, options \in Bags :
    \E rnds \in BatchDrawSet(strings, options) :
      \E r \in {obscureStringBatch(strings, options, cache, rnds)} :
          /\ cache' = r.cache
          /\ call' = Ran("obscureStringBatch", strings, options)
          /\ outcome' = [kind |-> r.kind, results |-> r.results, message |-> r.message]
          /\ UNCHANGED pending

MaxPending == 1

CallObscureStringAsync(Inputs, Bags) ==
  \E str \in Inputs, options \in Bags :
    IF RunsImmediately(str, options)
    THEN \E rnd \in DrawSet(str, options) :
           \E r \in {obscureString(str, options, cache, rnd)} :
               /\ cache' = r.cache
               /\ call' = Ran("obscureStringAsync", str, options)
               /\ outcome' = Settle(r)
               /\ UNCHANGED pending
    ELSE /\ Len(pending) < MaxPending
         /\ pending' = Append(pending, [str |-> str, options |-> options])
         /\ call' = Ran("obscureStringAsync", str, options)
         /\ outcome' = [kind |-> "pending"]
         /\ UNCHANGED cache

\* the setImmediate callback of the oldest deferred call
RunDeferred ==
  /\ pending # <<>>
  /\ LET job == Head(pending)
     IN  \E rnd \in DrawSet(job.str, job.options) :
           \E r \in {obscureString(job.str, job.options, cache, rnd)} :
               /\ cache' = r.cache
               /\ call' = Ran("setImmediate", job.str, job.options)
               /\ outcome' = Settle(r)
               /\ pending' = Tail(pending)

CallClearCache ==
  /\ cache' = clearCache
  /\ call' = Ran("clearCache", Undefined, NoOptions)
  /\ outcome' = [kind |-> "return"]
  /\ UNCHANGED pending

CallGetCacheStats ==
  /\ call' = Ran("getCacheStats", Undefined, NoOptions)
  /\ outcome' = [kind |-> "return", stats |-> getCacheStats(cache)]
  /\ UNCHANGED <<cache, pending>>

\* the exported functions of the permissive variant; it keeps no state
CallObscureString_v1(Inputs, Bags) ==
  \E str \in Inputs, options \in Bags :
    /\ call' = Ran("obscureString_v1", str, options)
    /\ outcome' = obscureString_v1(str, options)
    /\ UNCHANGED <<cache, pending>>

CallObscureStringBatch_v1(Lists, Bags) ==
  \E strings \in Lists, options \in Bags :
    /\ call' = Ran("obscureStringBatch_v1", strings, options)
    /\ outcome' = obscureStringBatch_v1(strings, options)
    /\ UNCHANGED <<cache, pending>>

CallGetMaskInfo(Inputs, Bags) ==
  \E str \in Inputs, options \in Bags :
    /\ call' = Ran("getMaskInfo", str, options)
    /\ outcome' = getMaskInfo(str, options)
    /\ UNCHANGED <<cache, pending>>

(***************************************************************************)
(* Spec: every exported operation, interleaved, over a small set of        *)
(* callers' values.                                                        *)
(***************************************************************************)
Alphabet == {"a", "b"}

MaxLen == 2

\* every string over Alphabet of length 0..n
Strings(n) == UNION {[1..k -> Alphabet] : k \in 0..n}

Opt(p, s) == [NoOptions EXCEPT !.prefixLength = Num(p), !.suffixLength = Num(s)]

\* the strings up to MaxLen that begin with "a", the empty string, and non-strings
SpecStrings == {s \in Strings(MaxLen) : Len(s) > 0 => s[1] = "a"}

SpecInputs == {Str(s) : s \in SpecStrings} \cup {Null, Num(42)}

SpecBags ==
  { Opt(0, 1),
    [Opt(0, 1) EXCEPT !.cache = Bool(FALSE)],
    [Opt(0, 1) EXCEPT !.maskChar = Str(<<>>)] }

SpecRandomInputs == {Str(<<"a", "b">>)}

SpecRandomBags == {[Opt(0, 1) EXCEPT !.randomMask = Bool(TRUE)]}

SpecAsyncInputs == {Str(<<"a">>), Str(<<"a", "b">>)}

SpecAsyncNonStrings == {Num(42)}

SpecAsyncBags ==
  { [Opt(0, 1) EXCEPT !.chunkSize = Num(2)],
    [Opt(0, 1) EXCEPT !.chunkSize = Num(2), !.maskChar = Str(<<>>)] }

MaxBatch == 2

SpecAsyncPlainBags == {[Opt(0, 1) EXCEPT !.chunkSize = Num(2)]}

SpecBatchItems == {Str(<<"a">>), Str(<<"a", "b", "a">>), Null}

SpecLists ==
  {Array(l) : l \in UNION {[1..k -> SpecBatchItems] : k \in 0..MaxBatch}} \cup {Str(<<"a">>)}

SpecBatchBags == {Opt(1, 1), [Opt(1, 1) EXCEPT !.cache = Bool(FALSE)]}

Next ==
  \/ CallObscureString(SpecInputs, SpecBags)
  \/ CallObscureString(SpecRandomInputs, SpecRandomBags)
  \/ CallObscureStringBatch(SpecLists, SpecBatchBags)
  \/ CallObscureStringAsync(SpecAsyncInputs, SpecAsyncBags)
  \/ CallObscureStringAsync(SpecAsyncNonStrings, SpecAsyncPlainBags)
  \/ RunDeferred
  \/ CallClearCache
  \/ CallGetCacheStats

Spec == Init /\ [][Next]_vars

(***************************************************************************)
(* SpecOnce: one obscureString call on the empty cache, over a wide set of *)
(* inputs and option bags (every validation rule, every strategy option).  *)
(***************************************************************************)
OnceMaxLen == 4

MaxAffix == 2

OnceInputs ==
  {Str(s) : s \in Strings(OnceMaxLen)} \cup {Null, Undefined, Num(42), Bool(TRUE)}

OnceMaskChars == {Undefined, Str(Chars("#")), Str(Chars("#!")), Str(<<>>), Num(1)}

\* absent, -1, 0..MaxAffix, and the non-integer 1/2
OnceLengths == {Undefined, Frac(1, 2)} \cup {Num(k) : k \in (-1)..MaxAffix}

OncePercentages == {Undefined, Num(50), Num(150)}

OnceRandomMasks == {Undefined, Bool(TRUE), Str(Chars("yes"))}

OncePreservePatterns == {Undefined, Str(Chars("a")), Str(Chars("("))}

OnceBags ==
  {[NoOptions EXCEPT !.maskChar = m, !.prefixLength = p, !.suffixLength = x,
                     !.percentage = pct, !.randomMask = r, !.preservePattern = pp] :
     m \in OnceMaskChars, p \in OnceLengths, x \in OnceLengths,
     pct \in OncePercentages, r \in OnceRandomMasks, pp \in OncePreservePatterns}

NextOnce == call.op = "none" /\ CallObscureString(OnceInputs, OnceBags)

SpecOnce == Init /\ [][NextOnce]_vars

(***************************************************************************)
(* SpecFill: the caller of the test 'cache respects maximum size': calls   *)
(* with ever longer strings, so that every call has a new cache key and    *)
(* the cache fills up to MAX_CACHE_SIZE and evicts.                        *)
(***************************************************************************)
FillMaxLen == 102

\* 'aaa...a', n characters
FillString(n) == Str([i \in 1..n |-> "a"])

\* the length of the string whose result was stored last
Newest == IF cache = <<>> THEN 0 ELSE Len(cache[Len(cache)].value)

\* the length of the string whose result is the oldest one stored
Oldest == IF cache = <<>> THEN 0 ELSE Len(cache[1].value)

\* the string stored last or the one stored first again (a hit), or the next
\* longer one (a new key)
FillInputs == {FillString(n) : n \in {Oldest, Newest, Newest + 1} \cap 1..FillMaxLen}

FillLists ==
  {Array(<<FillString(n), FillString(n + 1)>>) : n \in {Newest + 1} \cap 1..(FillMaxLen - 1)}

FillBags == {Opt(0, 1)}

NextFill ==
  \/ CallObscureString(FillInputs, FillBags)
  \/ CallObscureStringBatch(FillLists, FillBags)
  \/ CallObscureStringAsync(FillInputs, FillBags)
  \/ CallClearCache
  \/ CallGetCacheStats

SpecFill == Init /\ [][NextFill]_vars

(***************************************************************************)
(* SpecV1: one call of an exported function of the permissive variant      *)
(* (it keeps no state between calls), over strings with letters, digits    *)
(* and '@', and over well-formed and malformed options.                    *)
(***************************************************************************)
V1MaxLen == 3

V1Alphabet == {"a", "1"}

\* every short string, and strings the presets and the long-string branch need
V1Strings ==
  UNION {[1..k -> V1Alphabet] : k \in 0..V1MaxLen}
    \cup { Chars("a@b"), Chars("ab@b"), Chars("abc@b"), Chars("abcdefg@b"), Chars("@abcdefg"),
           Chars("a@b@c.d"), Chars("abcdefgh"), Chars("123456"), Chars("1234567"),
           Chars("12345678"), Chars("123-4567"), Chars("1-2345-678"), Chars("a1b2c3d4e5f6g7"),
           FillString(100).s }

V1Inputs == {Str(x) : x \in V1Strings} \cup {Null, Undefined, Num(12345678), Bool(TRUE)}

V1MaskChars == {Undefined, Str(Chars("#")), Str(Chars("#!")), Str(<<>>), Num(1), Null}

V1Lengths == {Undefined, Frac(1, 2)} \cup {Num(k) : k \in (-1)..2}

V1MinMaskLengths == {Undefined, Num(3), Num(-1)}

V1MaxLengths == {Undefined, Num(2), Num(7)}

\* the options of the standard strategy
V1StandardBags ==
  {[NoOptions EXCEPT !.maskChar = m, !.prefixLength = p, !.suffixLength = x,
                     !.minMaskLength = mm, !.maxLength = ml] :
     m \in V1MaskChars, p \in V1Lengths, x \in V1Lengths,
     mm \in V1MinMaskLengths, ml \in V1MaxLengths}

V1Presets ==
  {Undefined, Str(Chars("email")), Str(Chars("creditCard")), Str(Chars("phone")),
   Str(Chars("unknown")), Num(1)}

V1Percentages == {Undefined, Num(0), Num(50), Num(100), Num(150), Null}

\* the options that select another strategy, alone and together
V1StrategyBags ==
  {[NoOptions EXCEPT !.maskChar = m, !.prefixLength = p, !.suffixLength = x,
                     !.minMaskLength = mm, !.fullMask = f, !.reverseMask = r,
                     !.percentage = pct, !.preset = ps] :
     m \in {Undefined, Str(Chars("#")), Str(Chars("#!"))},
     p \in {Undefined, Num(0), Num(1)}, x \in {Undefined, Num(0), Num(1)},
     mm \in {Undefined, Num(3)}, f \in {Undefined, Bool(TRUE)}, r \in {Undefined, Bool(TRUE)},
     pct \in V1Percentages, ps \in V1Presets}

V1Bags == V1StandardBags \cup V1StrategyBags

V1BatchItems == {Str(Chars("a")), Str(Chars("abcdefgh")), Null}

V1Lists ==
  {Array(l) : l \in UNION {[1..k -> V1BatchItems] : k \in 0..MaxBatch}} \cup {Str(<<"a">>)}

V1BatchBags ==
  {NoOptions, [NoOptions EXCEPT !.maxLength = Num(2)], [NoOptions EXCEPT !.maskChar = Str(<<>>)]}

\* getMaskInfo validates nothing: any value may sit in a field, and options may be null
V1InfoLengths == V1Lengths \cup {Str(Chars("1")), Null, Bool(TRUE)}

V1InfoBags ==
  {[NoOptions EXCEPT !.prefixLength = p, !.suffixLength = x, !.minMaskLength = mm,
                     !.fullMask = f] :
     p \in V1InfoLengths, x \in V1InfoLengths,
     mm \in V1MinMaskLengths \cup {Str(Chars("1"))}, f \in {Undefined, Bool(TRUE), Num(0)}}
    \cup {Null}

NextV1 ==
  /\ call.op = "none"
  /\ \/ CallObscureString_v1(V1Inputs, V1Bags)
     \/ CallObscureStringBatch_v1(V1Lists, V1BatchBags)
     \/ CallGetMaskInfo(V1Inputs, V1InfoBags)

SpecV1 == Init /\ [][NextV1]_vars

(***************************************************************************)
(* SpecCompat: one obscureString call of src/src/index.js on the empty     *)
(* cache by a caller that passes the options of the permissive variant     *)
(* (preset, minMaskLength, maxLength), which src/src/index.js never reads. *)
(***************************************************************************)
CompatBags ==
  {[NoOptions EXCEPT !.prefixLength = p, !.suffixLength = x, !.minMaskLength = mm,
                     !.maxLength = ml, !.preset = ps] :
     p \in {Undefined, Num(1)}, x \in {Undefined, Num(1)},
     mm \in {Undefined, Num(3)}, ml \in {Undefined, Num(2), Num(7)},
     ps \in {Undefined, Str(Chars("creditCard")), Str(Chars("phone")), Str(Chars("email"))}}

NextCompat == call.op = "none" /\ CallObscureString(V1Inputs, CompatBags)

SpecCompat == Init /\ [][NextCompat]_vars

(***************************************************************************)
(* SpecPattern: one obscureString call of src/src/index.js on the empty    *)
(* cache with the pattern option.                                          *)
(***************************************************************************)
PatternBags ==
  {[NoOptions EXCEPT !.pattern = pt, !.maskChar = m, !.prefixLength = p, !.suffixLength = x] :
     pt \in {Str(Chars("email")), Str(Chars("phone")), Str(Chars("auto")), Str(Chars("generic"))},
     m \in {Undefined, Str(Chars("#"))},
     p \in {Undefined, Num(1)}, x \in {Undefined, Num(1)}}

\* the inputs of SpecV1, and inputs of email shape and of phone shape
PatternInputs ==
  V1Inputs \cup {Str(Chars("abc@d.e")), Str(Chars("abcd@e.fg")), Str(Chars("+1 (23) 4-5"))}

NextPattern == call.op = "none" /\ CallObscureString(PatternInputs, PatternBags)

SpecPattern == Init /\ [][NextPattern]_vars

(***************************************************************************)
(* Properties                                                              *)
(***************************************************************************)
\* the arguments of the last call, with the defaults filled in as ?? does
ArgMaskChar == Nullish(call.options.maskChar, Str(DEFAULT_MASK_CHAR))

ArgPrefix == Nullish(call.options.prefixLength, Num(DEFAULT_PREFIX_LENGTH))

ArgSuffix == Nullish(call.options.suffixLength, Num(DEFAULT_SUFFIX_LENGTH))

\* the call was obscureString on a non-empty string
OnString == call.op = "obscureString" /\ TypeOf(call.str) = "string" /\ Len(call.str.s) > 0

\* prefixLength and suffixLength are integers >= 0
AffixesNonNegative ==
  IsInteger(ArgPrefix) /\ ArgPrefix.num >= 0 /\ IsInteger(ArgSuffix) /\ ArgSuffix.num >= 0

\* no option selects a strategy other than Standard
NoStrategyOption ==
  /\ call.options.pattern = Undefined
  /\ call.options.percentage = Undefined
  /\ call.options.randomMask = Undefined
  /\ call.options.preservePattern = Undefined

\* input[0:p] + (n-p-s) mask characters + input[n-s:n]
StandardMasked(s, mask, p, x) ==
  SubSeq(s, 1, p) \o [i \in 1..(Len(s) - p - x) |-> mask[1]] \o SubSeq(s, Len(s) - x + 1, Len(s))

\* C1: Standard masking with a one-character mask and p + s < n returns exactly
\* input[0:p], then n-p-s mask characters, then input[n-s:n].
C1_StandardFormula ==
  (/\ OnString
   /\ NoStrategyOption
   /\ TypeOf(ArgMaskChar) = "string" /\ Len(ArgMaskChar.s) = 1
   /\ AffixesNonNegative
   /\ ArgPrefix.num + ArgSuffix.num < Len(call.str.s))
  => (/\ outcome.kind = "return"
      /\ outcome.value = StandardMasked(call.str.s, ArgMaskChar.s, ArgPrefix.num, ArgSuffix.num))

\* C3: a non-empty input with length <= prefixLength + suffixLength (both
\* non-negative integers, no other option) is returned unchanged, without error.
C3_TooShortPassthrough ==
  (/\ OnString
   /\ NoStrategyOption
   /\ call.options.maskChar = Undefined
   /\ AffixesNonNegative
   /\ Len(call.str.s) <= ArgPrefix.num + ArgSuffix.num)
  => (outcome.kind = "return" /\ outcome.value = call.str.s)

\* the last call was rejected by validateInput
ValidationFailed == OnString /\ ~validateInput(call.str, call.options).valid

\* the messages obscureString raises for a validation failure
RaisedTexts == {"obscure-string: " \o e : e \in ValidationErrors}

C5_LengthPreserved ==
  (/\ OnString
   /\ call.options.pattern = Undefined
   /\ validateInput(call.str, call.options).valid
   /\ outcome.kind = "return"
   /\ outcome.value # call.str.s)
  => Len(outcome.value) = Len(call.str.s)


(***************************************************************************)
(* Properties of the cache, the batch and the async wrapper (Spec)         *)
(***************************************************************************)
\* obscureString(str, {...options, cache: false}); the cache plays no part
Uncached(str, options, rnd) ==
  obscureString(str, [options EXCEPT !.cache = Bool(FALSE)], <<>>, rnd)

\* C2: for a deterministic strategy, obscureString with caching enabled returns
\* what the same call with cache:false returns, whatever ran before.
C2_CacheTransparency ==
  (/\ call.op = "obscureString"
   /\ ~Truthy(call.options.randomMask))
  => (/\ outcome.kind = Uncached(call.str, call.options, <<>>).kind
      /\ outcome.value = Uncached(call.str, call.options, <<>>).value
      /\ outcome.message = Uncached(call.str, call.options, <<>>).message)

\* the engine rejects the batch element: a string that fails validation
ElementRaises(item, options) ==
  TypeOf(item) = "string" /\ Len(item.s) > 0 /\ ~validateInput(item, options).valid

C7_CacheCapacity ==
  /\ Len(cache) \in 0..MAX_CACHE_SIZE
  /\ \A i, j \in 1..Len(cache) : cache[i].key = cache[j].key => i = j
  /\ call.op = "getCacheStats"
       => outcome.stats = [size |-> Len(cache), maxSize |-> MAX_CACHE_SIZE]

\* getCacheStats on a full cache that has evicted its oldest entry
C7_Witness ==
  /\ call.op = "getCacheStats"
  /\ Len(cache) = MAX_CACHE_SIZE
  /\ outcome.stats = [size |-> 100, maxSize |-> 100]
  /\ ~HasKey(cache, Chars("1:*:0:1::"))

C9_AsyncMatchesSync ==
  [][(call'.op \in {"obscureStringAsync", "setImmediate"})
       => \/ /\ outcome'.kind = "pending"
             /\ call'.op = "obscureStringAsync"
             /\ ~RunsImmediately(call'.str, call'.options)
          \/ \E rnd \in DrawSet(call'.str, call'.options) :
               LET r == obscureString(call'.str, call'.options, cache, rnd)
               IN  IF r.kind = "throw"
                   THEN outcome'.kind = "rejected" /\ outcome'.message = r.message
                   ELSE outcome'.kind = "resolved" /\ outcome'.value = r.value]_vars

\* a deferred call rejected with the validator's message
C9_Witness ==
  /\ call.op = "setImmediate"
  /\ outcome.kind = "rejected"
  /\ outcome.message = "obscure-string: maskChar cannot be empty"

\* C10: every obscureString call with randomMask draws each masked position
\* afresh (so repeated identical calls need not agree).
C10_RandomDrawsAfresh ==
  (/\ OnString
   /\ call.options.randomMask = Bool(TRUE)
   /\ call.options.pattern = Undefined
   /\ call.options.percentage = Undefined
   /\ outcome.kind = "return")
  => outcome.drawn = Max(0, Len(call.str.s) - ArgPrefix.num - ArgSuffix.num)


(***************************************************************************)
(* Properties of the percentage strategy                                   *)
(***************************************************************************)
\* input[0:a] + maskCount mask characters + input[n-b:n], with
\* maskCount = floor(n*P/100), a = floor((n-maskCount)/2), b = n-maskCount-a
PercentageMasked(s, mask, P) ==
  LET n == Len(s)
      maskCount == (n * P) \div 100
      a == (n - maskCount) \div 2
      b == (n - maskCount) - a
  IN  IF maskCount = 0 THEN s
      ELSE IF maskCount >= n THEN [i \in 1..n |-> mask[1]]
      ELSE SubSeq(s, 1, a) \o [i \in 1..maskCount |-> mask[1]] \o SubSeq(s, n - b + 1, n)

\* C11: obscureString with percentage P (integer 0..100) on a non-empty input,
\* prefixLength and suffixLength left at their defaults, returns the input with
\* floor(n*P/100) characters masked in the centre (the input itself when that
\* is 0, all mask characters when it is n).
C11_PercentageFormula ==
  (/\ OnString
   /\ IsInteger(call.options.percentage)
   /\ call.options.percentage.num \in 0..100
   /\ call.options.prefixLength = Undefined
   /\ call.options.suffixLength = Undefined
   /\ call.options.pattern = Undefined
   /\ call.options.randomMask = Undefined
   /\ call.options.preservePattern = Undefined
   /\ TypeOf(ArgMaskChar) = "string" /\ Len(ArgMaskChar.s) = 1)
  => (/\ outcome.kind = "return"
      /\ outcome.value = PercentageMasked(call.str.s, ArgMaskChar.s, call.options.percentage.num))


(***************************************************************************)
(* Properties of the permissive variant (SpecV1)                           *)
(***************************************************************************)
\* the call was obscureString of the permissive variant on a non-empty string
OnString_v1 ==
  call.op = "obscureString_v1" /\ call.str.t = "string" /\ Len(call.str.s) > 0

\* the options as the destructuring fills them in
V1MaskChar == Default(call.options.maskChar, Str(<<"*">>))

V1Prefix == Default(call.options.prefixLength, Num(3))

V1Suffix == Default(call.options.suffixLength, Num(3))

V1MinMask == Default(call.options.minMaskLength, Num(0))

\* maskChar is a string of 1..10 characters, the lengths are integers >= 0, and
\* the input is within maxLength
V1OptionsValid ==
  /\ V1MaskChar.t = "string" /\ Len(V1MaskChar.s) \in 1..MAX_MASK_CHAR_LENGTH
  /\ NonNegativeInteger(V1Prefix) /\ NonNegativeInteger(V1Suffix)
  /\ NonNegativeInteger(V1MinMask)
  /\ call.options.maxLength = Undefined

\* C12: with fullMask and a valid maskChar (1 to 10 characters), masking the
\* output again gives the same output, and the output does not depend on
\* prefixLength / suffixLength.
C12_FullMaskIdempotent ==
  (/\ OnString_v1
   /\ V1OptionsValid
   /\ call.options.fullMask = Bool(TRUE)
   /\ call.options.preset = Undefined)
  => (/\ outcome.kind = "return"
      /\ obscureString_v1(Str(outcome.value), call.options).value = outcome.value
      /\ outcome.value
           = obscureString_v1(call.str, [NoOptions EXCEPT !.fullMask = Bool(TRUE),
                                                          !.maskChar = call.options.maskChar]).value)


\* |d|-4 mask characters and the last 4 digits of d, or the input itself when d
\* has fewer than least digits
PresetDigitsMasked(s, mask, least) ==
  LET d == SelectSeq(s, IsDigit)
  IN  IF Len(d) < least THEN s
      ELSE [i \in 1..(Len(d) - 4) |-> mask[1]] \o SubSeq(d, Len(d) - 3, Len(d))

\* C13: obscureString with preset 'creditCard' (resp. 'phone') returns the input
\* unchanged when it has fewer than 8 (resp. 7) digits, otherwise |d|-4 mask
\* characters followed by the last 4 digits.
C13_PresetDigits ==
  (/\ OnString
   /\ call.options.preset \in {Str(Chars("creditCard")), Str(Chars("phone"))}
   /\ call.options.maskChar = Undefined)
  => (/\ outcome.kind = "return"
      /\ outcome.value
           = PresetDigitsMasked(call.str.s, DEFAULT_MASK_CHAR,
                                IF call.options.preset = Str(Chars("phone")) THEN 7 ELSE 8))


\* the call was obscureString of the permissive variant with preset 'email'
\* and valid options
OnEmailPreset ==
  OnString_v1 /\ V1OptionsValid /\ call.options.preset = Str(Chars("email"))

\* the 0-based place of the last '@' of the input, -1 when there is none
LastAt == LastIndexOf(call.str.s, "@")

\* the first k characters of the local part, L-k copies of maskChar, then the
\* domain from the last '@' on; k = min(2, floor(L/3))
EmailPresetMasked(s, mask, L) ==
  LET k == Min(2, L \div 3)
  IN  SubSeq(s, 1, k) \o Repeat(mask, L - k) \o SubSeq(s, L + 1, Len(s))

LocalLength == IndexOf(call.str.s, "@")

\* C15: obscureString with pattern 'email' on an input with a local part of
\* length L returns the input unchanged when L <= 2, otherwise the first
\* character of the local part, L-2 mask characters, its last character, and
\* '@' with the domain verbatim.
C15_EmailPattern ==
  (/\ OnString
   /\ call.options.pattern = Str(Chars("email"))
   /\ call.options.prefixLength = Undefined
   /\ call.options.suffixLength = Undefined
   /\ LocalLength >= 0)
  => (/\ outcome.kind = "return"
      /\ outcome.value =
           IF LocalLength <= 2 THEN call.str.s
           ELSE <<call.str.s[1]>> \o [i \in 1..(LocalLength - 2) |-> ArgMaskChar.s[1]]
                  \o SubSeq(call.str.s, LocalLength, Len(call.str.s)))


\* C16: with reverseMask and a one-character mask: if p + s < minMaskLength the
\* input is returned unchanged; if p + s >= n the whole string is masked;
\* otherwise p mask characters, input[p:n-s] and s mask characters are returned.
C16_ReverseMask ==
  (/\ OnString_v1
   /\ V1OptionsValid /\ Len(V1MaskChar.s) = 1
   /\ call.options.reverseMask = Bool(TRUE)
   /\ call.options.preset = Undefined
   /\ call.options.fullMask = Undefined
   /\ call.options.percentage = Undefined)
  => (/\ outcome.kind = "return"
      /\ outcome.value =
           LET n == Len(call.str.s)
               p == V1Prefix.num
               x == V1Suffix.num
               mask == V1MaskChar.s[1]
           IN  IF p + x < V1MinMask.num THEN call.str.s
               ELSE IF p + x >= n THEN [i \in 1..n |-> mask]
               ELSE [i \in 1..p |-> mask] \o SubSeq(call.str.s, p + 1, n - x)
                      \o [i \in 1..x |-> mask])


(***************************************************************************)
(* Properties of the options src/src/index.js does not read (SpecCompat)   *)
(***************************************************************************)
ArgMinMask == call.options.minMaskLength

\* C17: Standard masking with minMaskLength > 0 returns the input unchanged,
\* without error, when the middle n - p - s is shorter than minMaskLength, and
\* masks normally when it is not.
C17_MinMaskLength ==
  (/\ OnString
   /\ NoStrategyOption
   /\ call.options.preset = Undefined
   /\ call.options.maxLength = Undefined
   /\ TypeOf(ArgMaskChar) = "string" /\ Len(ArgMaskChar.s) = 1
   /\ AffixesNonNegative
   /\ IsInteger(ArgMinMask) /\ ArgMinMask.num > 0)
  => (/\ outcome.kind = "return"
      /\ outcome.value =
           IF Len(call.str.s) - ArgPrefix.num - ArgSuffix.num < ArgMinMask.num
           THEN call.str.s
           ELSE StandardMasked(call.str.s, ArgMaskChar.s, ArgPrefix.num, ArgSuffix.num))


\* the call raised the length error of the validator
LengthExceeded ==
  /\ outcome.kind = "throw"
  /\ outcome.message = "obscure-string: Input exceeds maximum length of 1000000 characters"

\* C18: with options.maxLength = M > 0, obscureString on a string raises the
\* length error exactly when the input is longer than M, whatever the other
\* options (the rule comes before every other validation rule).
C18_MaxLength ==
  (/\ call.op = "obscureString"
   /\ TypeOf(call.str) = "string"
   /\ IsInteger(call.options.maxLength) /\ call.options.maxLength.num > 0)
  => (LengthExceeded <=> Len(call.str.s) > call.options.maxLength.num)


(***************************************************************************)
(* Properties of getMaskInfo (SpecV1)                                      *)
(***************************************************************************)
\* a + b is the number c
SumsTo(a, b, c) ==
  LET sum == Plus(a, b)
  IN  sum.t = "number" /\ ~IsNaN(sum) /\ sum.num * c.den = c.num * sum.den

\* the report is one of the six classifications; the maskable one has
\* visibleChars + maskedChars = originalLength
Classified(info) ==
  \/ info = MaskInfo(FALSE, "null or undefined input")
  \/ info = MaskInfo(FALSE, "empty string")
  \/ /\ info.willBeMasked /\ info.reason = "" /\ info.prefixLength = NoField
     /\ info.visibleChars = Num(0) /\ info.maskedChars = info.originalLength
  \/ /\ ~info.willBeMasked /\ info.reason = "string too short"
  \/ /\ ~info.willBeMasked /\ info.reason = "mask length below minimum"
  \/ /\ info.willBeMasked /\ info.reason = "" /\ info.prefixLength # NoField
     /\ SumsTo(info.visibleChars, info.maskedChars, info.originalLength)

\* C19: getMaskInfo never raises, whatever the input and the options, leaves the
\* cache as it was, and reports one of the six classifications, with
\* visibleChars + maskedChars = originalLength in the maskable case.
C19_GetMaskInfoTotal ==
  [][call'.op = "getMaskInfo"
       => (/\ outcome'.kind = "return"
           /\ cache' = cache
           /\ Classified(outcome'.info))]_vars


(***************************************************************************)
(* Properties of options.cache === false (Spec)                            *)
(***************************************************************************)
\* the call just made is obscureString(s, {..., cache: false}) on a string
\* the validation accepts
BypassCall ==
  /\ call.op = "obscureString"
  /\ call.options.cache = Bool(FALSE)
  /\ TypeOf(call.str) = "string" /\ Len(call.str.s) > 0
  /\ validateInput(call.str, call.options).valid

\* what a deterministic strategy makes of the call's string, no cache involved
StrategyResult ==
  runStrategy(call.str.s, call.options, validateInput(call.str, call.options).sanitized,
              <<>>)

\* C20: obscureString(s, {..., cache: false}) leaves the cache's entries and
\* their order as they were, is never answered from the cache, and returns
\* what the strategy computes, also when an entry with its key is stored.
C20_CacheFalseBypass ==
  [][(call'.op = "obscureString" /\ call'.options.cache = Bool(FALSE))
       => (/\ cache' = cache
           /\ ~outcome'.hit
           /\ (BypassCall' /\ ~Truthy(call'.options.randomMask))
                => /\ outcome'.kind = StrategyResult'.kind
                   /\ outcome'.value = StrategyResult'.value)]_vars

\* a cache:false call whose key is stored with another string's masked form
C20_Witness ==
  /\ BypassCall
  /\ outcome.kind = "return"
  /\ LET key == getCacheKey(call.str.s, validateInput(call.str, call.options).sanitized)
     IN  /\ HasKey(cache, key)
         /\ cache[MapGet(cache, key)].value # outcome.value


(***************************************************************************)
(* SpecKeys: obscureString calls, with the cache on, that differ in one    *)
(* component of the cache key (maskChar, percentage), and clearCache.      *)
(***************************************************************************)
\* 'aaaaaaa' and 'aaaaaab': long enough for the default prefix and suffix
KeyInputs == {Str(Chars("aaaaaaa")), Str(Chars("aaaaaab"))}

KeyBags ==
  { NoOptions,
    [NoOptions EXCEPT !.maskChar = Str(Chars("#"))],
    [NoOptions EXCEPT !.percentage = Num(0)],
    [NoOptions EXCEPT !.percentage = Num(50)] }

NextKeys ==
  \/ CallObscureString(KeyInputs, KeyBags)
  \/ CallClearCache

SpecKeys == Init /\ [][NextKeys]_vars

(***************************************************************************)
(* Properties of the cache lookup (SpecKeys)                               *)
(***************************************************************************)
\* a call of obscureString on a string the validation accepts, cache enabled
CachingCall(c) ==
  /\ c.op = "obscureString"
  /\ c.options.cache # Bool(FALSE)
  /\ TypeOf(c.str) = "string" /\ Len(c.str.s) > 0
  /\ validateInput(c.str, c.options).valid

\* the six components the key is composed of
KeyComponents(c) ==
  LET sanitized == validateInput(c.str, c.options).sanitized
  IN  <<Len(c.str.s), sanitized.maskChar, sanitized.prefixLength, sanitized.suffixLength,
        sanitized.percentage, sanitized.preservePattern>>

KeyOf(c) == getCacheKey(c.str.s, validateInput(c.str, c.options).sanitized)

\* C21: with caching enabled, obscureString returns the stored value, without
\* running a strategy, exactly when an entry exists under the key of (length,
\* maskChar, prefixLength, suffixLength, percentage, preservePattern); calls
\* that differ in a component have different keys; a hit leaves the cache as
\* it was, a miss stores the strategy's result under the key.
C21_CacheProtocol ==
  [][CachingCall(call')
       => /\ outcome'.hit <=> HasKey(cache, KeyOf(call'))
          /\ outcome'.hit => /\ outcome'.value = cache[MapGet(cache, KeyOf(call'))].value
                             /\ cache' = cache
          /\ ~outcome'.hit =>
               /\ outcome'.value = runStrategy(call'.str.s, call'.options,
                                      validateInput(call'.str, call'.options).sanitized,
                                      <<>>).value
               /\ cache' = setInCache(cache, KeyOf(call'), outcome'.value)
          /\ (CachingCall(call) /\ KeyComponents(call) # KeyComponents(call'))
               => KeyOf(call) # KeyOf(call')]_vars


(***************************************************************************)
(* Properties of the eviction order (SpecFill)                             *)
(***************************************************************************)
\* the step stored k new entries in a full cache: the k oldest are gone, the
\* others keep their order, the new ones come last
EvictsOldest(k) ==
  /\ Len(cache') = MAX_CACHE_SIZE
  /\ SubSeq(cache', 1, MAX_CACHE_SIZE - k) = SubSeq(cache, k + 1, MAX_CACHE_SIZE)
  /\ \A i \in (MAX_CACHE_SIZE - k + 1)..MAX_CACHE_SIZE : ~HasKey(cache, cache'[i].key)

PrecedenceInputs == {Str(Chars("abcdefgh")), Str(Chars("abc@defg.h"))}

PrecedenceBags ==
  {[NoOptions EXCEPT !.preset = ps, !.pattern = pt, !.fullMask = fm, !.percentage = pc,
                     !.reverseMask = rv, !.randomMask = rm, !.preservePattern = pp] :
     ps \in {Undefined, Str(Chars("email"))}, pt \in {Undefined, Str(Chars("email"))},
     fm \in {Undefined, Bool(TRUE)}, pc \in {Undefined, Num(50)},
     rv \in {Undefined, Bool(TRUE)}, rm \in {Undefined, Bool(TRUE)},
     pp \in {Undefined, Str(Chars("a"))}}

NextPrecedence ==
  /\ call.op = "none"
  /\ \/ CallObscureString(PrecedenceInputs, PrecedenceBags)
     \/ CallObscureString_v1(PrecedenceInputs, PrecedenceBags)

SpecPrecedence == Init /\ [][NextPrecedence]_vars

(***************************************************************************)
(* Properties of the strategy dispatch (SpecPrecedence)                    *)
(***************************************************************************)
\* the strategy options by precedence, the highest first; preset and pattern
\* share the first place
StrategyOrder ==
  <<{"preset", "pattern"}, {"fullMask"}, {"percentage"}, {"reverseMask"}, {"randomMask"},
    {"preservePattern"}>>

\* the option is present in the bag
Present(options, name) ==
  IF name = "percentage" THEN options.percentage # Undefined ELSE Truthy(options[name])

\* the bag with every strategy option removed but the present one of highest
\* precedence; maskChar, prefixLength and suffixLength stay
HighestAlone(options) ==
  [name \in DOMAIN options |->
     IF \E i \in 1..Len(StrategyOrder) :
          /\ name \in StrategyOrder[i]
          /\ \E j \in 1..(i - 1) : \E higher \in StrategyOrder[j] : Present(options, higher)
     THEN Undefined
     ELSE options[name]]

\* C23: with several strategy options in one call, the result is what the
\* present option of highest precedence (preset/pattern > fullMask > percentage
\* > reverseMask > randomMask > preservePattern) gives alone with the same
\* maskChar, prefixLength and suffixLength.
C23_StrategyPrecedence ==
  /\ (call.op = "obscureString" /\ ~Truthy(HighestAlone(call.options).randomMask))
       => LET alone == obscureString(call.str, HighestAlone(call.options), <<>>, <<>>)
          IN  outcome.kind = alone.kind /\ outcome.value = alone.value
  /\ call.op = "obscureString_v1"
       => LET alone == obscureString_v1(call.str, HighestAlone(call.options))
          IN  outcome.kind = alone.kind /\ outcome.value = alone.value


(***************************************************************************)
(* SpecInvalid: obscureString calls with options the validation rejects,   *)
(* between calls it accepts and clearCache; both implementations.          *)
(***************************************************************************)
InvalidInputs == {Str(Chars("abcdefgh")), Str(Chars("abcdefgi")), Str(Chars("ab"))}

InvalidBags ==
  { NoOptions,
    [NoOptions EXCEPT !.maskChar = Str(Chars("#"))],
    [NoOptions EXCEPT !.maskChar = Str(<<>>)],
    [NoOptions EXCEPT !.randomMask = Str(Chars("yes"))],
    [NoOptions EXCEPT !.percentage = Num(200)],
    [NoOptions EXCEPT !.percentage = Num(200), !.fullMask = Bool(TRUE)],
    [NoOptions EXCEPT !.percentage = Num(200), !.preset = Str(Chars("email"))] }

NextInvalid ==
  \/ CallObscureString(InvalidInputs, InvalidBags)
  \/ CallObscureString_v1(InvalidInputs, InvalidBags)
  \/ CallClearCache

SpecInvalid == Init /\ [][NextInvalid]_vars

(***************************************************************************)
(* Properties of the validation (SpecInvalid)                              *)
(***************************************************************************)
\* C24: an obscureString call whose options fail validation raises the
\* validation error; no stored entry is returned in its place, no strategy
\* result is returned, and the cache is left as it was.
C24_ValidationFirst ==
  [][/\ (/\ call'.op = "obscureString"
         /\ TypeOf(call'.str) = "string" /\ Len(call'.str.s) > 0
         /\ ~validateInput(call'.str, call'.options).valid)
          => /\ outcome'.kind = "throw"
             /\ outcome'.message
                  = "obscure-string: " \o validateInput(call'.str, call'.options).error
             /\ ~outcome'.hit
             /\ cache' = cache
     /\ (/\ call'.op = "obscureString_v1"
         /\ TypeOf(call'.str) = "string" /\ Len(call'.str.s) > 0
         /\ percentageRule(call'.options.percentage) # "")
          => /\ outcome'.kind = "throw"
             /\ outcome'.message = percentageRule(call'.options.percentage)
             /\ cache' = cache]_vars


(***************************************************************************)
(* Properties of the order of the validation rules (SpecOnce)              *)
(***************************************************************************)
\* the rules in the order stated, each as "the call violates it"
RuleViolated(i, str, options) ==
  LET maskChar == Nullish(options.maskChar, Str(DEFAULT_MASK_CHAR))
      prefixLength == Nullish(options.prefixLength, Num(DEFAULT_PREFIX_LENGTH))
      suffixLength == Nullish(options.suffixLength, Num(DEFAULT_SUFFIX_LENGTH))
      minMaskLength == Nullish(options.minMaskLength, Num(0))
      maxLength == Nullish(options.maxLength, Num(MAX_INPUT_LENGTH))
      n == Len(str.s)
  IN  CASE i = 1 -> n * maxLength.den > maxLength.num
        [] i = 2 -> maskCharRule(maskChar) # ""
        [] i = 3 -> \/ ~NonNegativeInteger(prefixLength)
                    \/ ~NonNegativeInteger(suffixLength)
                    \/ ~NonNegativeInteger(minMaskLength)
        [] i = 4 -> prefixLength.num > n \/ suffixLength.num > n
        [] i = 5 -> prefixLength.num + suffixLength.num > n
        [] i = 6 -> percentageRule(options.percentage) # ""
        [] i = 7 -> preservePatternRule(options.preservePattern) # ""
        [] i = 8 -> randomMaskRule(options.randomMask) # ""

\* the rule an error message of validateInput belongs to
RuleOfMessage(message) ==
  CASE message = "obscure-string: Input exceeds maximum length of 1000000 characters" -> 1
    [] message \in {"obscure-string: maskChar must be a string",
                    "obscure-string: maskChar cannot be empty",
                    "obscure-string: maskChar exceeds maximum length of 10 characters"} -> 2
    [] message \in {"obscure-string: prefixLength must be a non-negative integer",
                    "obscure-string: suffixLength must be a non-negative integer"} -> 3
    [] message \in {"obscure-string: prefixLength exceeds string length",
                    "obscure-string: suffixLength exceeds string length"} -> 4
    [] message = "obscure-string: prefixLength + suffixLength cannot exceed string length" -> 5
    [] message = "obscure-string: percentage must be a number between 0 and 100" -> 6
    [] message = "obscure-string: preservePattern must be a string" -> 7
    [] message = "obscure-string: randomMask must be a boolean" -> 8
    [] OTHER -> 0

\* C25: when a call violates several validation rules, the error raised is
\* that of the first violated rule in the order maxLength, maskChar, numeric
\* lengths, a length above the input's, their sum above the input's,
\* percentage, preservePattern, randomMask.
C25_RuleOrder ==
  (/\ call.op = "obscureString"
   /\ TypeOf(call.str) = "string" /\ Len(call.str.s) > 0
   /\ \E i \in 1..8 : RuleViolated(i, call.str, call.options))
  => /\ outcome.kind = "throw"
     /\ RuleViolated(RuleOfMessage(outcome.message), call.str, call.options)
     /\ \A j \in 1..(RuleOfMessage(outcome.message) - 1) :
          ~RuleViolated(j, call.str, call.options)


(***************************************************************************)
(* Properties of pattern 'auto' (SpecPattern)                              *)
(***************************************************************************)
\* the whole input is an optional '+' and then one or more digits, white
\* space, '-', '(' or ')'
PhoneShape(s) ==
  LET from == IF s # <<>> /\ s[1] = "+" THEN 2 ELSE 1
  IN  /\ from <= Len(s)
      /\ \A i \in from..Len(s) :
           \/ \E d \in 1..10 : s[i] = Digits[d]
           \/ s[i] \in {" ", "\t", "\n", "\r", "-", "(", ")"}

\* the whole input is local@domain.tld, each part without white space and '@'
EmailShape(s) == MatchesEMAIL_PATTERN(s)

\* the pattern the claim dispatches an input to; absent is Standard masking
AutoTarget(s) ==
  IF EmailShape(s) THEN Str(Chars("email"))
  ELSE IF PhoneShape(s) THEN Str(Chars("phone"))
  ELSE Undefined

OnAutoPattern ==
  /\ call.op = "obscureString"
  /\ TypeOf(call.str) = "string"
  /\ call.options.pattern = Str(Chars("auto"))

\* C26: with pattern 'auto' the call gives what pattern 'email' gives for an
\* input of email shape, else what pattern 'phone' gives for an input of phone
\* characters only, else what Standard masking gives with the same options.
C26_AutoPattern ==
  OnAutoPattern
  => LET direct == obscureString(call.str,
                     [call.options EXCEPT !.pattern = AutoTarget(call.str.s)], <<>>, <<>>)
     IN  /\ outcome.kind = direct.kind
         /\ outcome.value = direct.value
         /\ outcome.message = direct.message

\* pattern 'auto' on an input of email shape, masked as an email
C26_Witness ==
  /\ OnAutoPattern
  /\ EmailShape(call.str.s)
  /\ outcome.kind = "return"
  /\ outcome.value # call.str.s
  /\ outcome.value # obscureCore(call.str.s, validateInput(call.str, call.options).sanitized)


(***************************************************************************)
(* SpecLive: obscureStringAsync calls between obscureString and clearCache *)
(* calls, with the event loop running every setImmediate callback that is  *)
(* queued (the callback stays queued until it runs).                       *)
(***************************************************************************)
NextLive ==
  \/ CallObscureStringAsync(SpecAsyncInputs, SpecAsyncBags)
  \/ CallObscureStringAsync(SpecAsyncNonStrings, SpecAsyncPlainBags)
  \/ RunDeferred
  \/ CallObscureString(SpecAsyncInputs, SpecAsyncBags)
  \/ CallClearCache

SpecLive == Init /\ [][NextLive]_vars /\ WF_vars(RunDeferred)

(***************************************************************************)
(* Properties of the settlement of obscureStringAsync (SpecLive)           *)
(***************************************************************************)
\* the promise of the step is settled: resolved or rejected
Settled(o) == o.kind \in {"resolved", "rejected"}

\* the string is shorter than options.chunkSize, by default 10,000
ShorterThanChunk(str, options) ==
  LET chunk == IF Truthy(options.chunkSize) THEN options.chunkSize ELSE Num(10000)
  IN  Len(str.s) * chunk.den < chunk.num

\* the calls obscureStringAsync can hand to setImmediate
DeferredJobs ==
  {[str |-> s, options |-> o] : s \in SpecAsyncInputs \cup SpecAsyncNonStrings,
                                o \in SpecAsyncBags}

C28_DeferredIsolated ==
  (/\ call.op = "setImmediate"
   /\ TypeOf(call.str) = "string"
   /\ ~Truthy(call.options.randomMask))
  => LET alone == Uncached(call.str, call.options, <<>>)
     IN  /\ outcome.kind = IF alone.kind = "throw" THEN "rejected" ELSE "resolved"
         /\ outcome.value = alone.value


(***************************************************************************)
(* Properties of the errors across inputs of one length (SpecOnce)         *)
(***************************************************************************)
\* the input of the call's length that consists of 'a' only
SameLengthInput == FillString(Len(call.str.s))

InfoOptionsValid(options) ==
  /\ options # Null
  /\ \A name \in {"prefixLength", "suffixLength", "minMaskLength"} :
       options[name] = Undefined \/ NonNegativeInteger(options[name])
  /\ options.fullMask \in {Undefined, Bool(TRUE), Bool(FALSE)}
  /\ \A name \in DOMAIN options \ {"prefixLength", "suffixLength", "minMaskLength", "fullMask"} :
       options[name] = Undefined

\* the call of getMaskInfo the claim is about
OnMaskInfo ==
  /\ call.op = "getMaskInfo"
  /\ TypeOf(call.str) = "string"
  /\ InfoOptionsValid(call.options)

\* C30: for a string and valid options of prefixLength, suffixLength,
\* minMaskLength and fullMask, getMaskInfo reports willBeMasked false exactly
\* when obscureString returns the input unchanged; otherwise maskedChars is
\* the number of input positions obscureString shows as the mask character
\* and visibleChars the number of positions it keeps.
C30_InfoAgrees ==
  OnMaskInfo
  => LET s == call.str.s
         masked == obscureString_v1(call.str, call.options)
         info == outcome.info
     IN  /\ outcome.kind = "return"
         /\ masked.kind = "return"
         /\ ~info.willBeMasked <=> masked.value = s
         /\ info.willBeMasked
              => /\ Len(masked.value) = Len(s)
                 /\ info.maskedChars
                      = Num(Cardinality({i \in 1..Len(s) : masked.value[i] = "*"}))
                 /\ info.visibleChars
                      = Num(Cardinality({i \in 1..Len(s) : masked.value[i] = s[i]}))

====
